---- MODULE Spec2Model ----
(***************************************************************************)
(* Smart Agriculture (ESP32): the actuator control module                  *)
(* (embedded/main/actuators.cpp), the hysteresis policy it applies to a    *)
(* SensorData snapshot, and the sensor module that calibrates and          *)
(* validates the snapshot (embedded/main/sensors.cpp).                     *)
(*                                                                         *)
(* Numbers.  soilMoisture, lightLevel and rainLevel are C ints and are     *)
(* kept as integers.  The float fields are kept as exact integers in a     *)
(* fixed unit: temperature and humidity in tenths (the DHT22 resolution),  *)
(* phValue in units of 1/3900 pH, the unit in which one ADC count is worth *)
(* exactly 11 (3.5 * 3.3 / 4095 = 11/3900).  Thresholds are scaled the     *)
(* same way, so every comparison of the code is an integer comparison.     *)
(***************************************************************************)
EXTENDS Integers, Sequences, FiniteSets, TLC

(***************************************************************************)
(* config.h                                                                *)
(***************************************************************************)
PUMP_PIN == 26
FERT_PIN == 27
LIGHT_RELAY_PIN == 25
FAN_PIN == 14
LED_PIN == 2

SOIL_MOISTURE_LOW == 30
SOIL_MOISTURE_HIGH == 70
\* 35.0f and 30.0f degrees C, in tenths
TEMP_HIGH_THRESH == 350
TEMP_LOW_THRESH == 300
\* 85.0f % RH, in tenths
HUMIDITY_HIGH_THRESH == 850
LIGHT_LOW_THRESH == 300
LIGHT_HIGH_THRESH == 500
\* 5.5f and 7.0f pH, in 1/3900 pH
PH_LOW_THRESH == 21450
PH_HIGH_THRESH == 27300
RAIN_THRESHOLD == 1000

SOIL_DRY_VALUE == 3200
SOIL_WET_VALUE == 1500
\* 3.3f V, in tenths
PH_SENSOR_VREF == 33
\* 0.0f pH, in 1/3900 pH
PH_OFFSET == 0
SENSOR_READ_INTERVAL == 5000
PUMP_MAX_ON_TIME == 60000

\* tenths of a pH unit, in the unit of phValue
Ph(tenths) == tenths * 390

RelayPins == {PUMP_PIN, FERT_PIN, LIGHT_RELAY_PIN, FAN_PIN}
Pins == RelayPins \cup {LED_PIN}

(***************************************************************************)
(* Bounds of the model                                                     *)
(***************************************************************************)
\* the counters of consecutive dead-band cycles saturate here
MaxRun == 2

(***************************************************************************)
(* The snapshots handed to actuators_auto_control.  Every field group read *)
(* by one rule ranges over values on both sides of, and exactly on, each   *)
(* threshold of that rule, the other groups resting at Nominal (inside     *)
(* every dead band); Corners has every combination of the four rules'      *)
(* ON conditions (as in Stressed) and OFF conditions (as in Relaxed).      *)
(* Each snapshot comes with valid true and false.  isRaining follows       *)
(* rainLevel as sensors_read computes it.                                  *)
(***************************************************************************)
Temperatures == {290, 300, 350, 360}
Humidities == {400, 500, 850, 900}
Soils == {29, 30, 31, 50, 69, 70, 71}
PhValues == {Ph(40), Ph(55), Ph(60), Ph(70), Ph(75)}
LightLevels == {299, 300, 400, 500, 501}
RainLevels == {999, 1000}

Nominal ==
    [temperature |-> 320, humidity |-> 500, soilMoisture |-> 50,
     phValue |-> Ph(60), lightLevel |-> 400, rainLevel |-> 1000,
     isRaining |-> FALSE, valid |-> TRUE]

Stressed ==
    [temperature |-> 360, humidity |-> 900, soilMoisture |-> 29,
     phValue |-> Ph(40), lightLevel |-> 299, rainLevel |-> 1000,
     isRaining |-> FALSE, valid |-> TRUE]

Relaxed ==
    [temperature |-> 290, humidity |-> 500, soilMoisture |-> 71,
     phValue |-> Ph(75), lightLevel |-> 501, rainLevel |-> 999,
     isRaining |-> TRUE, valid |-> TRUE]

\* the pump, fertiliser, light and fan readings of p, f, l and v
Mix(p, f, l, v) ==
    [temperature |-> v.temperature, humidity |-> v.humidity,
     soilMoisture |-> p.soilMoisture, rainLevel |-> p.rainLevel,
     isRaining |-> p.isRaining, phValue |-> f.phValue,
     lightLevel |-> l.lightLevel, valid |-> TRUE]

Corners ==
    LET ends == {Stressed, Relaxed}
    IN  {Mix(p, f, l, v) : p \in ends, f \in ends, l \in ends, v \in ends}

SensorDataSet ==
    LET pumpInputs  == {[Nominal EXCEPT !.soilMoisture = s, !.rainLevel = r,
                                        !.isRaining = (r < RAIN_THRESHOLD)] :
                            s \in Soils, r \in RainLevels}
        fertInputs  == {[Nominal EXCEPT !.phValue = p] : p \in PhValues}
        lightInputs == {[Nominal EXCEPT !.lightLevel = l] : l \in LightLevels}
        fanInputs   == {[Nominal EXCEPT !.temperature = t, !.humidity = h] :
                            t \in Temperatures, h \in Humidities}
        plausible   == pumpInputs \cup fertInputs \cup lightInputs \cup fanInputs
                          \cup {Nominal} \cup Corners
    IN  {[d EXCEPT !.valid = v] : d \in plausible, v \in BOOLEAN}

(***************************************************************************)
(* State                                                                   *)
(***************************************************************************)
VARIABLES
    state,      \* actuators.cpp: static ActuatorState state
    pins,       \* level of each output pin, as last written by digitalWrite
    writes,     \* the digitalWrite calls of the last operation, in order
    pc,         \* "setup" before actuators_init has run, "loop" after
    last,       \* the last operation and its argument
    pre,        \* state as it was when the last operation began
    prev,       \* the operation before the last one
    quiet,      \* runs of consecutive dead-band cycles, per actuator
    fanScenario,\* how far the last cycles have followed FanScenario
    timed,      \* whether pumpOnTime is kept
    pumpOnTime, \* ms for which the pump has been ON without a break
    conv,       \* the last call of a calibration function and its result
    snapshot,   \* the caller's SensorData, as sensors_read last left it
    hw,         \* what the sensors delivered to the last sensors_read
    okFlag      \* what the last sensors_read returned

vars == <<state, pins, writes, pc, last, pre, prev, quiet, fanScenario,
          timed, pumpOnTime, conv, snapshot, hw, okFlag>>

sensorVars == <<conv, snapshot, hw, okFlag>>

ALL_OFF == [pumpOn |-> FALSE, fertOn |-> FALSE, lightOn |-> FALSE, fanOn |-> FALSE]

(***************************************************************************)
(* actuators.cpp, as functions of the machine m = [state, pins, writes]    *)
(***************************************************************************)
digitalWrite(m, pin, level) ==
    [m EXCEPT !.pins[pin] = level, !.writes = Append(@, <<pin, level>>)]

\* Faulty variant: treats the relay module as active-HIGH.
relay_write_active_high(m, pin, activate) ==
    digitalWrite(m, pin, IF activate THEN "HIGH" ELSE "LOW")

relay_write(m, pin, activate) ==
    digitalWrite(m, pin, IF activate THEN "LOW" ELSE "HIGH")

\* Faulty variant: the fan relay is never driven.
actuators_init_skips_fan(m) ==
    LET m1 == relay_write(m, PUMP_PIN, FALSE)
        m2 == relay_write(m1, FERT_PIN, FALSE)
        m3 == relay_write(m2, LIGHT_RELAY_PIN, FALSE)
    IN  digitalWrite(m3, LED_PIN, "LOW")

actuators_init(m) ==
    LET m1 == relay_write(m, PUMP_PIN, FALSE)
        m2 == relay_write(m1, FERT_PIN, FALSE)
        m3 == relay_write(m2, LIGHT_RELAY_PIN, FALSE)
        m4 == relay_write(m3, FAN_PIN, FALSE)
    IN  digitalWrite(m4, LED_PIN, "LOW")

\* Faulty variant: drives the relay but forgets to record the new state.
set_pump_relay_only(m, on) ==
    relay_write(m, PUMP_PIN, on)

actuators_set_pump(m, on) ==
    relay_write([m EXCEPT !.state.pumpOn = on], PUMP_PIN, on)

actuators_set_fert(m, on) ==
    relay_write([m EXCEPT !.state.fertOn = on], FERT_PIN, on)

actuators_set_light(m, on) ==
    relay_write([m EXCEPT !.state.lightOn = on], LIGHT_RELAY_PIN, on)

\* Faulty variant: a copied setter that still stores into lightOn.
set_fan_wrong_field(m, on) ==
    relay_write([m EXCEPT !.state.lightOn = on], FAN_PIN, on)

actuators_set_fan(m, on) ==
    relay_write([m EXCEPT !.state.fanOn = on], FAN_PIN, on)

\* Faulty variant: switches on at the threshold itself (<= for <).
auto_pump_inclusive(m, data) ==
    IF ~m.state.pumpOn /\ data.soilMoisture <= SOIL_MOISTURE_LOW /\ ~data.isRaining
    THEN actuators_set_pump(m, TRUE)
    ELSE IF m.state.pumpOn /\ (data.soilMoisture > SOIL_MOISTURE_HIGH \/ data.isRaining)
         THEN actuators_set_pump(m, FALSE)
         ELSE m

\* Faulty variant: the OFF condition forgets the rain.
auto_pump_ignores_rain(m, data) ==
    IF ~m.state.pumpOn /\ data.soilMoisture < SOIL_MOISTURE_LOW /\ ~data.isRaining
    THEN actuators_set_pump(m, TRUE)
    ELSE IF m.state.pumpOn /\ data.soilMoisture > SOIL_MOISTURE_HIGH
         THEN actuators_set_pump(m, FALSE)
         ELSE m

\* Faulty variant: no dead band, the pump switches on below the OFF threshold.
auto_pump_single_threshold(m, data) ==
    IF ~m.state.pumpOn /\ data.soilMoisture < SOIL_MOISTURE_HIGH /\ ~data.isRaining
    THEN actuators_set_pump(m, TRUE)
    ELSE IF m.state.pumpOn /\ (data.soilMoisture > SOIL_MOISTURE_HIGH \/ data.isRaining)
         THEN actuators_set_pump(m, FALSE)
         ELSE m

\* actuators_auto_control, the water pump block
auto_pump(m, data) ==
    IF ~m.state.pumpOn /\ data.soilMoisture < SOIL_MOISTURE_LOW /\ ~data.isRaining
    THEN actuators_set_pump(m, TRUE)
    ELSE IF m.state.pumpOn /\ (data.soilMoisture > SOIL_MOISTURE_HIGH \/ data.isRaining)
         THEN actuators_set_pump(m, FALSE)
         ELSE m

\* Faulty variant: the OFF branch compares with PH_LOW_THRESH.
auto_fert_low_only(m, data) ==
    IF ~m.state.fertOn /\ data.phValue < PH_LOW_THRESH
    THEN actuators_set_fert(m, TRUE)
    ELSE IF m.state.fertOn /\ data.phValue > PH_LOW_THRESH
         THEN actuators_set_fert(m, FALSE)
         ELSE m

\* Faulty variant: the ON guard was copied from the pump block and still
\* reads pumpOn.
auto_fert_reads_pump(m, data) ==
    IF ~m.state.pumpOn /\ ~m.state.fertOn /\ data.phValue < PH_LOW_THRESH
    THEN actuators_set_fert(m, TRUE)
    ELSE IF m.state.fertOn /\ data.phValue > PH_HIGH_THRESH
         THEN actuators_set_fert(m, FALSE)
         ELSE m

\* actuators_auto_control, the fertiliser pump block
auto_fert(m, data) ==
    IF ~m.state.fertOn /\ data.phValue < PH_LOW_THRESH
    THEN actuators_set_fert(m, TRUE)
    ELSE IF m.state.fertOn /\ data.phValue > PH_HIGH_THRESH
         THEN actuators_set_fert(m, FALSE)
         ELSE m

\* Faulty variant: switches off at the threshold itself (>= for >).
auto_light_inclusive(m, data) ==
    IF ~m.state.lightOn /\ data.lightLevel < LIGHT_LOW_THRESH
    THEN actuators_set_light(m, TRUE)
    ELSE IF m.state.lightOn /\ data.lightLevel >= LIGHT_HIGH_THRESH
         THEN actuators_set_light(m, FALSE)
         ELSE m

\* Faulty variant: the two light thresholds are exchanged, so that the ON
\* and the OFF condition overlap between them.
auto_light_swapped_thresholds(m, data) ==
    IF ~m.state.lightOn /\ data.lightLevel < LIGHT_HIGH_THRESH
    THEN actuators_set_light(m, TRUE)
    ELSE IF m.state.lightOn /\ data.lightLevel > LIGHT_LOW_THRESH
         THEN actuators_set_light(m, FALSE)
         ELSE m

\* actuators_auto_control, the grow-light block
auto_light(m, data) ==
    IF ~m.state.lightOn /\ data.lightLevel < LIGHT_LOW_THRESH
    THEN actuators_set_light(m, TRUE)
    ELSE IF m.state.lightOn /\ data.lightLevel > LIGHT_HIGH_THRESH
         THEN actuators_set_light(m, FALSE)
         ELSE m

\* Faulty variant: the OFF condition as actuators.h words it, on temperature
\* alone.
auto_fan_temperature_only(m, data) ==
    LET highTemp     == data.temperature > TEMP_HIGH_THRESH
        highHumidity == data.humidity > HUMIDITY_HIGH_THRESH
    IN  IF ~m.state.fanOn /\ (highTemp \/ highHumidity)
        THEN actuators_set_fan(m, TRUE)
        ELSE IF m.state.fanOn /\ data.temperature < TEMP_LOW_THRESH
             THEN actuators_set_fan(m, FALSE)
             ELSE m

\* Faulty variant: the rules of actuators.h as two separate ifs, the second
\* reading the state the first has just written.
auto_fan_two_ifs(m, data) ==
    LET highTemp     == data.temperature > TEMP_HIGH_THRESH
        highHumidity == data.humidity > HUMIDITY_HIGH_THRESH
        m1 == IF ~m.state.fanOn /\ (highTemp \/ highHumidity)
              THEN actuators_set_fan(m, TRUE)
              ELSE m
    IN  IF m1.state.fanOn /\ data.temperature < TEMP_LOW_THRESH
        THEN actuators_set_fan(m1, FALSE)
        ELSE m1

\* actuators_auto_control, the ventilation fan block
auto_fan(m, data) ==
    LET highTemp     == data.temperature > TEMP_HIGH_THRESH
        highHumidity == data.humidity > HUMIDITY_HIGH_THRESH
    IN  IF ~m.state.fanOn /\ (highTemp \/ highHumidity)
        THEN actuators_set_fan(m, TRUE)
        ELSE IF m.state.fanOn /\ data.temperature < TEMP_LOW_THRESH /\ ~highHumidity
             THEN actuators_set_fan(m, FALSE)
             ELSE m

\* Faulty variant: the valid flag is never looked at.
auto_control_unchecked(m, data) ==
    auto_fan(auto_light(auto_fert(auto_pump(m, data), data), data), data)

actuators_auto_control(m, data) ==
    IF ~data.valid
    THEN m
    ELSE auto_fan(auto_light(auto_fert(auto_pump(m, data), data), data), data)

(***************************************************************************)
(* sensors.cpp: calibration.  long is 32 bits wide on the ESP32.           *)
(***************************************************************************)
LONG_MAX == 2147483647
LONG_MIN == -LONG_MAX - 1

\* a / n for n > 0 as C divides: truncating toward zero
TruncDiv(a, n) ==
    IF a >= 0 \/ a % n = 0 THEN a \div n ELSE (a \div n) + 1

\* C integer division a / b, b # 0
CDiv(a, b) == IF b > 0 THEN TruncDiv(a, b) ELSE -TruncDiv(a, -b)

\* a * b reduced to a 32-bit two's-complement long, for 0 <= b < 2^15,
\* computed on 16-bit halves
Wrap32Mul(a, b) ==
    LET lowProd == (a % 65536) * b
        lo == lowProd % 65536
        hi == ((a \div 65536) * b + lowProd \div 65536) % 65536
    IN  (IF hi >= 32768 THEN hi - 65536 ELSE hi) * 65536 + lo

\* The values a signed long product a * b can take, for 0 < b < 2^15.
\* Signed overflow is undefined: the build wraps, or yields anything else.
LongProducts(a, b) ==
    IF a <= LONG_MAX \div b /\ a >= -(LONG_MAX \div b)
    THEN {a * b}
    ELSE {Wrap32Mul(a, b), LONG_MIN, LONG_MAX, 0}

\* The values the long difference x - y can take, for y >= 0.
LongDifferences(x, y) ==
    IF x >= LONG_MIN + y
    THEN {x - y}
    ELSE {(x - LONG_MIN) + (LONG_MAX - y) + 1, LONG_MIN, LONG_MAX, 0}

\* Arduino (ESP32 core) map(): (x - in_min) * (out_max - out_min) /
\* (in_max - in_min) + out_min in long arithmetic; the set of its outcomes
map(x, in_min, in_max, out_min, out_max) ==
    LET run  == in_max - in_min
        rise == out_max - out_min
    IN  {CDiv(p, run) + out_min :
            p \in UNION {LongProducts(delta, rise) : delta \in LongDifferences(x, in_min)}}

\* Arduino constrain()
constrain(amt, low, high) ==
    IF amt < low THEN low ELSE IF amt > high THEN high ELSE amt

\* Faulty variant: the result of map() is returned unclamped.
soil_adc_unclamped(rawAdc) ==
    map(rawAdc, SOIL_DRY_VALUE, SOIL_WET_VALUE, 0, 100)

\* Faulty variant: the calibration pair is passed in the wrong order.
soil_adc_swapped(rawAdc) ==
    {constrain(percent, 0, 100) :
        percent \in map(rawAdc, SOIL_WET_VALUE, SOIL_DRY_VALUE, 0, 100)}

\* Faulty variant: only negative percentages are clamped.
soil_adc_lower_clamp_only(rawAdc) ==
    {IF percent < 0 THEN 0 ELSE percent :
        percent \in map(rawAdc, SOIL_DRY_VALUE, SOIL_WET_VALUE, 0, 100)}

\* the set of values soil_adc_to_percent(rawAdc) can return
soil_adc_to_percent(rawAdc) ==
    {constrain(percent, 0, 100) :
        percent \in map(rawAdc, SOIL_DRY_VALUE, SOIL_WET_VALUE, 0, 100)}

\* 4095.0f, the full-scale ADC count, and 3.5f, the slope in tenths
ADC_FULL_SCALE == 4095
PH_SLOPE == 35
\* units of phValue per pH
PH_UNIT == 3900

\* phValue units per ADC count: 3.5 * 3.3 / 4095 pH, exactly 11
PhPerCount == (PH_SLOPE * PH_SENSOR_VREF * PH_UNIT) \div (100 * ADC_FULL_SCALE)

\* Faulty variant: only the upper end is clamped.
ph_adc_upper_clamp_only(rawAdc) ==
    LET ph == rawAdc * PhPerCount + PH_OFFSET
    IN  IF ph > Ph(140) THEN Ph(140) ELSE ph

ph_adc_to_value(rawAdc) ==
    LET ph == rawAdc * PhPerCount + PH_OFFSET
    IN  constrain(ph, Ph(0), Ph(140))

(***************************************************************************)
(* sensors.cpp: sensors_read.  A float the DHT22 library could not read is *)
(* NaN; temperature and humidity are in tenths like the thresholds.        *)
(***************************************************************************)
NaN == -1000000

isnan(x) == x = NaN

\* Faulty variant of ok: -40.0 degrees is accepted.
ok_inclusive(data) ==
    /\ data.temperature >= -400 /\ data.temperature < 800
    /\ data.humidity >= 0 /\ data.humidity <= 1000
    /\ data.soilMoisture >= 0 /\ data.soilMoisture <= 100
    /\ data.phValue >= Ph(0) /\ data.phValue <= Ph(140)

\* bool ok: the basic range validation
ok(data) ==
    /\ data.temperature > -400 /\ data.temperature < 800
    /\ data.humidity >= 0 /\ data.humidity <= 1000
    /\ data.soilMoisture >= 0 /\ data.soilMoisture <= 100
    /\ data.phValue >= Ph(0) /\ data.phValue <= Ph(140)

\* Faulty variant of isRaining: a reading at the threshold counts as rain.
isRaining_inclusive(rainLevel) == rainLevel <= RAIN_THRESHOLD

\* data.isRaining as computed from data.rainLevel
isRaining(rainLevel) == rainLevel < RAIN_THRESHOLD

\* sensors_read(data) when the hardware delivers the readings in: the set of
\* [data, result] it can leave behind.  After a failed DHT22 read the other
\* fields of data keep what they held before.
sensors_read(data, in) ==
    LET dht == [data EXCEPT !.temperature = in.temperature,
                            !.humidity = in.humidity]
    IN  IF isnan(dht.temperature) \/ isnan(dht.humidity)
        THEN {[data |-> [dht EXCEPT !.valid = FALSE], result |-> FALSE]}
        ELSE {LET filled == [dht EXCEPT !.soilMoisture = percent,
                                        !.phValue = ph_adc_to_value(in.phRaw),
                                        !.lightLevel = in.lightLevel,
                                        !.rainLevel = in.rainLevel,
                                        !.isRaining = isRaining(in.rainLevel)]
              IN  [data |-> [filled EXCEPT !.valid = ok(filled)],
                   result |-> ok(filled)]
              : percent \in soil_adc_to_percent(in.soilRaw)}

(***************************************************************************)
(* Observers.  They record what the program did; no code reads them.       *)
(***************************************************************************)
Setters == {"set_pump", "set_fert", "set_light", "set_fan"}

\* what prev keeps of an operation: its name and, for a setter, its argument
Summary(l) == IF l.op \in Setters THEN l ELSE [op |-> l.op]

\* soilMoisture strictly inside the pump's dead band
PumpBand(data) ==
    data.soilMoisture > SOIL_MOISTURE_LOW /\ data.soilMoisture < SOIL_MOISTURE_HIGH

\* lightLevel inside the grow-light's dead band, bounds included
LightBand(data) ==
    data.lightLevel >= LIGHT_LOW_THRESH /\ data.lightLevel <= LIGHT_HIGH_THRESH

NoRun == [n |-> 0, held |-> FALSE, rained |-> FALSE]

\* A run of consecutive valid cycles inside a dead band: n cycles so far
\* (saturating at MaxRun), held the actuator's value when the run began,
\* rained whether any cycle of the run had isRaining.
Extend(run, inBand, before, rain) ==
    IF ~inBand THEN NoRun
    ELSE IF run.n = 0
         THEN [n |-> 1, held |-> before, rained |-> rain]
         ELSE [n |-> IF run.n < MaxRun THEN run.n + 1 ELSE MaxRun,
               held |-> run.held, rained |-> run.rained \/ rain]

\* the (temperature, humidity) readings of the documented fan scenario
FanScenario ==
    << [temperature |-> 360, humidity |-> 400],
       [temperature |-> 290, humidity |-> 900],
       [temperature |-> 290, humidity |-> 500] >>

Reads(step, data) ==
    data.temperature = step.temperature /\ data.humidity = step.humidity

\* Number of leading steps of FanScenario that the latest consecutive valid
\* cycles have fed, the first of them to a fan that was OFF.
Follow(k, data, fanBefore) ==
    IF k > 0 /\ k < Len(FanScenario) /\ Reads(FanScenario[k + 1], data) THEN k + 1
    ELSE IF ~fanBefore /\ Reads(FanScenario[1], data) THEN 1
    ELSE 0

\* pumpOnTime after operation op has left the actuators at s: an automatic
\* cycle comes SENSOR_READ_INTERVAL after the one before, a setter takes no
\* time; nothing is counted beyond PUMP_MAX_ON_TIME + SENSOR_READ_INTERVAL.
Elapsed(s, op) ==
    IF ~s.pumpOn THEN 0
    ELSE IF op.op = "auto" /\ state.pumpOn /\ pumpOnTime <= PUMP_MAX_ON_TIME
         THEN pumpOnTime + SENSOR_READ_INTERVAL
         ELSE pumpOnTime

Machine == [state |-> state, pins |-> pins, writes |-> << >>]

\* the operation op has turned Machine into m
Commit(m, op) ==
    /\ state' = m.state
    /\ pins' = m.pins
    /\ writes' = m.writes
    /\ last' = op
    /\ pre' = state
    /\ prev' = Summary(last)
    /\ IF op.op = "auto" /\ op.data.valid
       THEN /\ quiet' =
                 [pump  |-> Extend(quiet.pump, PumpBand(op.data), state.pumpOn,
                                   op.data.isRaining),
                  light |-> Extend(quiet.light, LightBand(op.data), state.lightOn,
                                   FALSE)]
            /\ fanScenario' = Follow(fanScenario, op.data, state.fanOn)
       ELSE /\ quiet' = [pump |-> NoRun, light |-> NoRun]
            /\ fanScenario' = 0
    /\ pumpOnTime' = IF timed THEN Elapsed(m.state, op) ELSE 0
    /\ UNCHANGED <<timed, sensorVars>>

(***************************************************************************)
(* The program: setup() calls actuators_init once; afterwards the control  *)
(* loop runs automatic cycles and the command channel calls the setters,   *)
(* one call at a time.                                                     *)
(***************************************************************************)
\* a SensorData nothing has been stored in yet, as zeroed memory
Unread ==
    [temperature |-> 0, humidity |-> 0, soilMoisture |-> 0, phValue |-> 0,
     lightLevel |-> 0, rainLevel |-> 0, isRaining |-> FALSE, valid |-> FALSE]

\* no calibration function has been called
NoCall == [fn |-> "none", raw |-> 0, done |-> TRUE, result |-> 0]

\* the state after static initialisation, before setup() runs
Boot ==
    /\ pumpOnTime = 0
    /\ state = ALL_OFF
    /\ pins = [p \in Pins |-> "UNSET"]
    /\ writes = << >>
    /\ pc = "setup"
    /\ last = [op |-> "boot"]
    /\ pre = ALL_OFF
    /\ prev = [op |-> "boot"]
    /\ quiet = [pump |-> NoRun, light |-> NoRun]
    /\ fanScenario = 0

\* no sensors_read has been called
NoRead == [read |-> "none"]

SensorsIdle == snapshot = Unread /\ hw = NoRead /\ okFlag = FALSE

Init == Boot /\ timed = FALSE /\ conv = NoCall /\ SensorsIdle

Setup ==
    /\ pc = "setup"
    /\ pc' = "loop"
    /\ Commit(actuators_init(Machine), [op |-> "init"])

AutoControl ==
    /\ pc = "loop"
    /\ \E data \in SensorDataSet :
          Commit(actuators_auto_control(Machine, data), [op |-> "auto", data |-> data])
    /\ UNCHANGED pc

SetPump ==
    /\ pc = "loop"
    /\ \E on \in BOOLEAN :
          Commit(actuators_set_pump(Machine, on), [op |-> "set_pump", on |-> on])
    /\ UNCHANGED pc

SetFert ==
    /\ pc = "loop"
    /\ \E on \in BOOLEAN :
          Commit(actuators_set_fert(Machine, on), [op |-> "set_fert", on |-> on])
    /\ UNCHANGED pc

SetLight ==
    /\ pc = "loop"
    /\ \E on \in BOOLEAN :
          Commit(actuators_set_light(Machine, on), [op |-> "set_light", on |-> on])
    /\ UNCHANGED pc

SetFan ==
    /\ pc = "loop"
    /\ \E on \in BOOLEAN :
          Commit(actuators_set_fan(Machine, on), [op |-> "set_fan", on |-> on])
    /\ UNCHANGED pc

Next == Setup \/ AutoControl \/ SetPump \/ SetFert \/ SetLight \/ SetFan

Spec == Init /\ [][Next]_vars

\* The same program with the time the pump has been ON measured.
InitTimed == Boot /\ timed = TRUE /\ conv = NoCall /\ SensorsIdle

SpecTimed == InitTimed /\ [][Next]_vars

(***************************************************************************)
(* The calibration functions on their own, over the ADC range and beyond.  *)
(***************************************************************************)
\* every reading of the 12-bit ADC, and raw values out of its range up to
\* the ends of int
SoilRaws ==
    (-2..4097) \cup {LONG_MIN, LONG_MIN + SOIL_DRY_VALUE, -21471637, -21471636,
                     21478036, 21478037, LONG_MAX}

PhRaws == (-2..4097) \cup {-90000, -4964, 4963, 4964, 5000, 90000}

\* a call of calibration function fn on rawAdc, not yet made
Call(fn, rawAdc) == [fn |-> fn, raw |-> rawAdc, done |-> FALSE, result |-> 0]

InitCalib ==
    /\ Boot
    /\ timed = FALSE
    /\ SensorsIdle
    /\ conv \in {Call("soil", r) : r \in SoilRaws} \cup {Call("ph", r) : r \in PhRaws}

SoilAdcToPercent ==
    /\ conv.fn = "soil" /\ ~conv.done
    /\ \E result \in soil_adc_to_percent(conv.raw) :
          conv' = [conv EXCEPT !.done = TRUE, !.result = result]
    /\ UNCHANGED <<state, pins, writes, pc, last, pre, prev, quiet, fanScenario,
                   timed, pumpOnTime, snapshot, hw, okFlag>>

PhAdcToValue ==
    /\ conv.fn = "ph" /\ ~conv.done
    /\ conv' = [conv EXCEPT !.done = TRUE, !.result = ph_adc_to_value(conv.raw)]
    /\ UNCHANGED <<state, pins, writes, pc, last, pre, prev, quiet, fanScenario,
                   timed, pumpOnTime, snapshot, hw, okFlag>>

NextCalib == SoilAdcToPercent \/ PhAdcToValue

SpecCalib == InitCalib /\ [][NextCalib]_vars

(***************************************************************************)
(* sensors_read on its own: one call, on a SensorData that is fresh or     *)
(* holds an earlier snapshot, for readings around every limit it tests.    *)
(***************************************************************************)
DhtTemperatures == {NaN, -401, -400, -399, 250, 799, 800, 801}
DhtHumidities == {NaN, -1, 0, 500, 1000, 1001}
SoilReadings == {0, SOIL_WET_VALUE, 2350, SOIL_DRY_VALUE, ADC_FULL_SCALE}
PhReadings == {0, 2000, ADC_FULL_SCALE}
LightReadings == {0, ADC_FULL_SCALE}
RainReadings == {0, RAIN_THRESHOLD - 1, RAIN_THRESHOLD, RAIN_THRESHOLD + 1, ADC_FULL_SCALE}

Readings ==
    [read : {"pending"}, temperature : DhtTemperatures, humidity : DhtHumidities,
     soilRaw : SoilReadings, phRaw : PhReadings, lightLevel : LightReadings,
     rainLevel : RainReadings]

InitSensors ==
    /\ Boot
    /\ timed = FALSE
    /\ conv = NoCall
    /\ snapshot \in {Unread, Nominal}
    /\ hw \in Readings
    /\ okFlag = FALSE

SensorsRead ==
    /\ hw.read = "pending"
    /\ \E r \in sensors_read(snapshot, hw) :
          /\ snapshot' = r.data
          /\ okFlag' = r.result
    /\ hw' = [hw EXCEPT !.read = "done"]
    /\ UNCHANGED <<state, pins, writes, pc, last, pre, prev, quiet, fanScenario,
                   timed, pumpOnTime, conv>>

NextSensors == SensorsRead

SpecSensors == InitSensors /\ [][NextSensors]_vars

TypeOK ==
    /\ state \in [pumpOn : BOOLEAN, fertOn : BOOLEAN, lightOn : BOOLEAN, fanOn : BOOLEAN]
    /\ pins \in [Pins -> {"UNSET", "LOW", "HIGH"}]
    /\ pc \in {"setup", "loop"}
    /\ quiet.pump.n \in 0..MaxRun /\ quiet.light.n \in 0..MaxRun
    /\ fanScenario \in 0..Len(FanScenario)

(***************************************************************************)
(* Claims                                                                  *)
(***************************************************************************)
\* the last operation was an automatic cycle, on a valid snapshot
Cycle == last.op = "auto" /\ last.data.valid

\* the last operation was an automatic cycle, on an invalid snapshot
Skipped == last.op = "auto" /\ ~last.data.valid

\* The rules as the specification's table states them: the value an actuator
\* has after a cycle that found it at `on`.
PumpRule(on, data) ==
    IF on THEN ~(data.soilMoisture > SOIL_MOISTURE_HIGH \/ data.isRaining)
          ELSE data.soilMoisture < SOIL_MOISTURE_LOW /\ ~data.isRaining

FertRule(on, data) ==
    IF on THEN ~(data.phValue > PH_HIGH_THRESH)
          ELSE data.phValue < PH_LOW_THRESH

LightRule(on, data) ==
    IF on THEN ~(data.lightLevel > LIGHT_HIGH_THRESH)
          ELSE data.lightLevel < LIGHT_LOW_THRESH

FanRule(on, data) ==
    IF on THEN ~(data.temperature < TEMP_LOW_THRESH /\ data.humidity <= HUMIDITY_HIGH_THRESH)
          ELSE data.temperature > TEMP_HIGH_THRESH \/ data.humidity > HUMIDITY_HIGH_THRESH

\* the digitalWrite calls of the last operation that went to pin
WritesTo(pin) == {i \in 1..Len(writes) : writes[i][1] = pin}

\* C1: an automatic cycle on a snapshot with valid false leaves the four
\* actuator booleans as they were and writes no pin, whatever the other
\* fields of the snapshot hold.
C1_InvalidSnapshotIsNoOp ==
    Skipped => state = pre /\ writes = << >>

\* an invalid snapshot whose fields would have switched all four actuators on
C1_Witness ==
    /\ Skipped
    /\ [last.data EXCEPT !.valid = TRUE] = Stressed
    /\ state = ALL_OFF

\* C2: after a cycle on a valid snapshot the pump is ON iff the hysteresis
\* rule says so: from OFF, iff soilMoisture < SOIL_MOISTURE_LOW and not
\* raining; from ON, unless soilMoisture > SOIL_MOISTURE_HIGH or raining.
C2_PumpFollowsRule ==
    Cycle => state.pumpOn = PumpRule(pre.pumpOn, last.data)

\* the pump was switched on by a dry, rainless snapshot
C2_Witness ==
    /\ Cycle
    /\ ~pre.pumpOn /\ state.pumpOn
    /\ last.data.soilMoisture = SOIL_MOISTURE_LOW - 1

\* C3: after a cycle on a valid snapshot with isRaining the pump is OFF,
\* whatever it was before and however dry the soil is.
C3_RainOverride ==
    Cycle /\ last.data.isRaining => ~state.pumpOn

\* rain switched a running pump off although the soil was dry
C3_Witness ==
    /\ Cycle /\ last.data.isRaining
    /\ last.data.soilMoisture < SOIL_MOISTURE_LOW
    /\ pre.pumpOn /\ ~state.pumpOn

\* C4 as claimed: over any run of consecutive valid cycles whose
\* soilMoisture stays strictly between SOIL_MOISTURE_LOW and
\* SOIL_MOISTURE_HIGH, the pump keeps the state it had when the run began.
C4_Original ==
    quiet.pump.n > 0 => state.pumpOn = quiet.pump.held

\* C4 (amended): over any run of consecutive valid cycles whose soilMoisture
\* stays strictly between SOIL_MOISTURE_LOW and SOIL_MOISTURE_HIGH and none
\* of which has isRaining, the pump keeps the state it had when the run
\* began; with rain in the run the pump still never switches on.
C4_NoChatterWithoutRain ==
    quiet.pump.n > 0 =>
        /\ ~quiet.pump.rained => state.pumpOn = quiet.pump.held
        /\ state.pumpOn => quiet.pump.held

\* a running pump has stayed on through MaxRun rainless dead-band cycles
C4_Witness ==
    /\ quiet.pump.n = MaxRun /\ ~quiet.pump.rained
    /\ quiet.pump.held /\ state.pumpOn
    /\ last.data.soilMoisture = SOIL_MOISTURE_HIGH - 1

\* what FanScenario leaves the fan at, step by step
FanScenarioResult == << TRUE, TRUE, FALSE >>

C6_FertFollowsRule ==
    /\ Cycle => state.fertOn = FertRule(pre.fertOn, last.data)
    /\ Cycle /\ last.data.phValue = Ph(40) => state.fertOn
    /\ Cycle /\ last.data.phValue = Ph(75) => ~state.fertOn
    /\ Cycle /\ last.data.phValue = Ph(60) => state.fertOn = pre.fertOn

\* pH 7.5 has switched a running fertiliser pump off
C6_Witness ==
    /\ Cycle /\ last.data.phValue = Ph(75)
    /\ pre.fertOn /\ ~state.fertOn

\* C7: after a cycle on a valid snapshot the grow-light is ON iff its rule
\* says so: from OFF, iff lightLevel < LIGHT_LOW_THRESH; from ON, unless
\* lightLevel > LIGHT_HIGH_THRESH; and over any run of consecutive cycles
\* with lightLevel in [LIGHT_LOW_THRESH, LIGHT_HIGH_THRESH] the light keeps
\* the state it had when the run began.
C7_LightFollowsRule ==
    /\ Cycle => state.lightOn = LightRule(pre.lightOn, last.data)
    /\ quiet.light.n > 0 => state.lightOn = quiet.light.held

\* a lit grow-light has stayed on through MaxRun cycles, the last one
\* exactly at LIGHT_HIGH_THRESH
C7_Witness ==
    /\ quiet.light.n = MaxRun
    /\ quiet.light.held /\ state.lightOn
    /\ last.data.lightLevel = LIGHT_HIGH_THRESH

\* C8: a cycle on a valid snapshot that comes right after a manual setter
\* decides the overridden actuator from the value the setter gave it and the
\* snapshot, by the same rule as ever: nothing of the override outlasts it.
C8_OverrideHasNoLock ==
    Cycle /\ prev.op \in Setters =>
        /\ prev.op = "set_pump"  => state.pumpOn  = PumpRule(prev.on, last.data)
        /\ prev.op = "set_fert"  => state.fertOn  = FertRule(prev.on, last.data)
        /\ prev.op = "set_light" => state.lightOn = LightRule(prev.on, last.data)
        /\ prev.op = "set_fan"   => state.fanOn   = FanRule(prev.on, last.data)

\* set_pump(false), then a dry and rainless cycle: the pump is ON
C8_Witness ==
    /\ Cycle /\ prev = [op |-> "set_pump", on |-> FALSE]
    /\ last.data.soilMoisture < SOIL_MOISTURE_LOW /\ ~last.data.isRaining
    /\ state.pumpOn

\* C9: each manual setter called with on makes its own actuator boolean
\* equal to on and leaves the other three as they were.
C9_SetterSetsOnlyItsOwn ==
    /\ last.op = "set_pump"  => state = [pre EXCEPT !.pumpOn = last.on]
    /\ last.op = "set_fert"  => state = [pre EXCEPT !.fertOn = last.on]
    /\ last.op = "set_light" => state = [pre EXCEPT !.lightOn = last.on]
    /\ last.op = "set_fan"   => state = [pre EXCEPT !.fanOn = last.on]

\* set_fan(true) right after a cycle on a snapshot that asks for the fan to
\* be off, the other three actuators being on
C9_Witness ==
    /\ last = [op |-> "set_fan", on |-> TRUE]
    /\ prev.op = "auto"
    /\ pre = [pumpOn |-> TRUE, fertOn |-> TRUE, lightOn |-> TRUE, fanOn |-> FALSE]
    /\ state.fanOn

\* the relay pin of each actuator boolean
RelayOf ==
    [pumpOn |-> PUMP_PIN, fertOn |-> FERT_PIN, lightOn |-> LIGHT_RELAY_PIN,
     fanOn |-> FAN_PIN]

\* C10: in one automatic cycle every actuator is written at most once, and
\* only to change it: a relay pin is written once if its actuator changed
\* in the cycle and not at all otherwise, and no other pin is written.
C10_OneTransitionPerCycle ==
    last.op = "auto" =>
        /\ \A a \in DOMAIN RelayOf :
              Cardinality(WritesTo(RelayOf[a])) = IF state[a] # pre[a] THEN 1 ELSE 0
        /\ \A i \in 1..Len(writes) : writes[i][1] \in RelayPins

\* one cycle has switched all four actuators
C10_Witness ==
    /\ Cycle
    /\ Len(writes) = 4
    /\ \A a \in DOMAIN RelayOf : state[a] # pre[a]

\* the four blocks of actuators_auto_control, by name
Blocks == {"pump", "fert", "light", "fan"}

Block(name, m, data) ==
    CASE name = "pump"  -> auto_pump(m, data)
      [] name = "fert"  -> auto_fert(m, data)
      [] name = "light" -> auto_light(m, data)
      [] name = "fan"   -> auto_fan(m, data)

\* the 24 orders in which the four blocks can be run
Orders == {o \in [1..4 -> Blocks] : \A i, j \in 1..4 : o[i] = o[j] => i = j}

InOrder(o, m, data) ==
    Block(o[4], Block(o[3], Block(o[2], Block(o[1], m, data), data), data), data)

ActuatorStates ==
    [pumpOn : BOOLEAN, fertOn : BOOLEAN, lightOn : BOOLEAN, fanOn : BOOLEAN]

\* the machine as the last operation found it, with state s
Before(s) == [state |-> s, pins |-> pins, writes |-> << >>]

\* C11: on a valid snapshot the four blocks run in any of the 24 orders
\* leave the ActuatorState the cycle left, and the value the cycle gives an
\* actuator is the same from every state that agrees on that actuator.
C11_RulesAreIndependent ==
    Cycle =>
        /\ \A o \in Orders : InOrder(o, Before(pre), last.data).state = state
        /\ \A a \in DOMAIN RelayOf : \A s \in ActuatorStates :
              s[a] = pre[a] =>
                  actuators_auto_control(Before(s), last.data).state[a] = state[a]

\* one cycle has switched the pump on and the fertiliser pump on while the
\* light and the fan went off
C11_Witness ==
    /\ Cycle
    /\ pre = [pumpOn |-> FALSE, fertOn |-> FALSE, lightOn |-> TRUE, fanOn |-> TRUE]
    /\ state = [pumpOn |-> TRUE, fertOn |-> TRUE, lightOn |-> FALSE, fanOn |-> FALSE]

\* the last call was soil_adc_to_percent / ph_adc_to_value
SoilCall == conv.fn = "soil" /\ conv.done
PhCall == conv.fn = "ph" /\ conv.done

\* (rawAdc - SOIL_DRY_VALUE) * 100 fits a 32-bit long
SoilProductFits(rawAdc) ==
    /\ rawAdc <= SOIL_DRY_VALUE + LONG_MAX \div 100
    /\ rawAdc >= SOIL_DRY_VALUE - LONG_MAX \div 100

C13_SoilPercentMonotonic ==
    SoilCall /\ conv.raw \in 0..ADC_FULL_SCALE =>
        \A b \in conv.raw..ADC_FULL_SCALE :
            \A higher \in soil_adc_to_percent(b) : higher <= conv.result

\* a reading strictly inside the calibration span, where truncation acts
C13_Witness ==
    SoilCall /\ conv.raw = 2351 /\ conv.result = 49

\* C14: ph_adc_to_value returns a value in [0.0, 14.0] for every raw input,
\* and 3.5 * (rawAdc * 3.3 / 4095) + PH_OFFSET whenever that lies in the
\* range.
C14_PhValueClampedLinear ==
    PhCall =>
        LET exact == PH_SLOPE * PH_SENSOR_VREF * conv.raw
            scale == (100 * ADC_FULL_SCALE) \div PH_UNIT
        IN  /\ conv.result >= Ph(0) /\ conv.result <= Ph(140)
            /\ exact + PH_OFFSET * scale >= Ph(0) * scale
                 /\ exact + PH_OFFSET * scale <= Ph(140) * scale
               => conv.result * scale = exact + PH_OFFSET * scale

\* a negative raw value has been clamped to pH 0
C14_Witness ==
    PhCall /\ conv.raw < 0 /\ conv.result = Ph(0)

\* a sensors_read call has returned
Read == hw.read = "done"

\* C15: sensors_read returns the valid flag it stored, and valid is TRUE
\* exactly when temperature and humidity are both defined (not NaN),
\* temperature is strictly inside (-40, 80), humidity is in [0, 100],
\* soilMoisture is in [0, 100] and phValue is in [0, 14].
C15_ValidIffPlausible ==
    Read =>
        /\ okFlag = snapshot.valid
        /\ snapshot.valid <=>
              /\ snapshot.temperature # NaN /\ snapshot.humidity # NaN
              /\ snapshot.temperature > -400 /\ snapshot.temperature < 800
              /\ snapshot.humidity >= 0 /\ snapshot.humidity <= 1000
              /\ snapshot.soilMoisture \in 0..100
              /\ snapshot.phValue \in Ph(0)..Ph(140)

\* a call that succeeded with temperature and humidity at the edge of the
\* accepted range
C15_Witness ==
    /\ Read /\ okFlag /\ snapshot.valid
    /\ snapshot.temperature = -399 /\ snapshot.humidity = 1000

\* C16: in a snapshot of a sensors_read call that returned true, isRaining is
\* TRUE iff rainLevel < RAIN_THRESHOLD; rainLevel = RAIN_THRESHOLD is not rain.
C16_RainFlagMatchesLevel ==
    Read /\ okFlag => (snapshot.isRaining <=> snapshot.rainLevel < RAIN_THRESHOLD)

\* a successful call that read the rain channel exactly at the threshold
C16_Witness ==
    /\ Read /\ okFlag
    /\ hw.rainLevel = RAIN_THRESHOLD /\ snapshot.rainLevel = RAIN_THRESHOLD
    /\ ~snapshot.isRaining

\* C17: at startup the ActuatorState is all-off: before actuators_init has
\* run, and right after it, pump, fertiliser, light and fan are all FALSE,
\* and after actuators_init all four relays are at their OFF level (HIGH).
C17_StartsAllOff ==
    /\ pc = "setup" => state = ALL_OFF
    /\ last.op = "init" =>
          /\ state = ALL_OFF
          /\ \A pin \in RelayPins : pins[pin] = "HIGH"

\* actuators_init has just run and has driven the relays
C17_Witness ==
    /\ last.op = "init" /\ pc = "loop"
    /\ Len(writes) = 5
    /\ pins[FAN_PIN] = "HIGH" /\ pins[PUMP_PIN] = "HIGH"

\* C18: for every valid snapshot, whenever the fan is ON and temperature <
\* TEMP_LOW_THRESH, the automatic cycle turns the fan OFF.
C18_FanOffBelowLowThreshold ==
    Cycle /\ pre.fanOn /\ last.data.temperature < TEMP_LOW_THRESH => ~state.fanOn

\* C19: the pump never stays ON continuously for longer than
\* PUMP_MAX_ON_TIME, whatever the sensor snapshots were.
C19_PumpSafetyTimer ==
    state.pumpOn => pumpOnTime <= PUMP_MAX_ON_TIME

\* C20: once actuators_init has run, after any sequence of automatic cycles
\* and setter calls each relay pin is LOW iff its ActuatorState boolean is
\* TRUE, for all four actuators.
C20_RelaysMatchState ==
    pc = "loop" =>
        \A a \in DOMAIN RelayOf : (pins[RelayOf[a]] = "LOW") <=> state[a]

\* an automatic cycle after which some relays are ON and others OFF
C20_Witness ==
    /\ pc = "loop" /\ Cycle
    /\ state.pumpOn /\ pins[PUMP_PIN] = "LOW"
    /\ ~state.fanOn /\ pins[FAN_PIN] = "HIGH"
    /\ state.lightOn /\ ~state.fertOn

\* C21: the automatic policy is idempotent per snapshot: running
\* actuators_auto_control again on the snapshot of the cycle that has just
\* run changes nothing, and the snapshot does not satisfy both the ON and
\* the OFF condition of any actuator.
C21_AutoControlIdempotent ==
    Cycle =>
        LET again == actuators_auto_control(Machine, last.data)
        IN  /\ again.state = state
            /\ again.pins = pins
            /\ ~(PumpRule(FALSE, last.data) /\ ~PumpRule(TRUE, last.data))
            /\ ~(FertRule(FALSE, last.data) /\ ~FertRule(TRUE, last.data))
            /\ ~(LightRule(FALSE, last.data) /\ ~LightRule(TRUE, last.data))
            /\ ~(FanRule(FALSE, last.data) /\ ~FanRule(TRUE, last.data))

\* a cycle that switched the pump and the light ON, or the fan and the
\* fertiliser pump OFF: a second run on its snapshot finds them changed and
\* writes nothing
C21_Witness ==
    /\ Cycle
    /\ \/ ~pre.pumpOn /\ state.pumpOn /\ ~pre.lightOn /\ state.lightOn
       \/ pre.fanOn /\ ~state.fanOn /\ pre.fertOn /\ ~state.fertOn
    /\ actuators_auto_control(Machine, last.data).writes = << >>

\* C22: snapshot validity is decided by temperature and humidity alone: for
\* the temperature and humidity of the call that has returned, sensors_read
\* returns the same flag for every combination of the soil, acidity, light
\* and rain readings.
C22_AnalogReadingsNeverInvalidate ==
    Read =>
        \A soilRaw \in SoilReadings, phRaw \in PhReadings,
           lightLevel \in LightReadings, rainLevel \in RainReadings :
            \A r \in sensors_read(Unread, [hw EXCEPT !.soilRaw = soilRaw,
                                                     !.phRaw = phRaw,
                                                     !.lightLevel = lightLevel,
                                                     !.rainLevel = rainLevel]) :
                r.result = okFlag

\* a call that succeeded with the soil probe reading 0 (far wetter than the
\* calibrated wet value) and the acidity probe at full scale
C22_Witness ==
    /\ Read /\ okFlag
    /\ hw.soilRaw = 0 /\ snapshot.soilMoisture = 100
    /\ hw.phRaw = ADC_FULL_SCALE /\ hw.rainLevel = 0

=============================================================================
